---- MODULE Spec2Model ----
(***************************************************************************)
(* Model of the lp_program escrow job marketplace                          *)
(* (src/programs/lp-program/src/lib.rs).                                   *)
(*                                                                         *)
(* Every instruction is one atomic step: a transaction commits all of its  *)
(* writes or none, so an instruction that returns an error changes no      *)
(* account.  The outcome of a call is given by the *_err operator of its   *)
(* instruction.  The *_call operators give the accounts after any call:    *)
(* what a handler wrote before it returned an error is discarded with the  *)
(* transaction (Commit).  The action of an instruction is enabled when the *)
(* outcome is "Ok"; the action of approve_submission is enabled when the   *)
(* call passes every check of its handler and reaches the transfer.        *)
(*                                                                         *)
(* An instruction names the accounts it works on; they are inputs chosen   *)
(* by the caller, so every action draws them with \E.  Only `signer` is    *)
(* authenticated by the runtime.  Typed accounts (Account<T>) must exist,  *)
(* so they are drawn from the existing records.                            *)
(*                                                                         *)
(* Addresses: the user account of wallet w is the PDA ["user", w], written *)
(* w; a job post is the PDA ["job_post", signer, title], written           *)
(* <<signer, title>>; its escrow is the PDA ["escrow", job]; an            *)
(* application is the PDA ["application", job, signer], written            *)
(* <<job, signer>>.                                                        *)
(*                                                                         *)
(* system_program::transfer moves lamports; it refuses a source account    *)
(* that carries data and a source that holds less than the amount.  Every  *)
(* account the program creates with `init` carries data and is owned by    *)
(* the program, the escrow (space = 8) included, so the transfer out of an *)
(* escrow in approve_submission is refused whatever the amount.  The      *)
(* `freelancer` account of approve_submission is any address the caller    *)
(* chooses.                                                                *)
(*                                                                         *)
(* `init, payer = signer, space = N` creates the account before the        *)
(* handler runs and moves the rent-exempt minimum of N bytes from the      *)
(* signer's wallet into it; a wallet that cannot pay it fails the call.    *)
(* Transaction fees, and the runtime's check at the end of a transaction   *)
(* that a debited wallet is left rent-exempt or empty, are not modelled.   *)
(***************************************************************************)
EXTENDS Integers, FiniteSets, Sequences, TLC

\* ---- bounds ----
MaxAmount == 2
\* funds of a wallet: the rent of one user account, of one job post with its
\* escrow and of one application
InitBalance == 16613520
MaxClock == 1
MaxAccepted == 2

\* ---- inputs ----
Wallets == {"alice", "bob"}
Titles == {"Logo"}
Amounts == 0..MaxAmount
StartDates == {0}
EndDates == {-1, 0}
ExpectedDates == {-1, 0}
Roles == {"Client", "Freelancer"}
Names == {"n"}
Descriptions == {"d"}
Resumes == {"r1"}
Links == {"link1", "link2"}
Narrations == {"done"}
Reviews == {"great"}
\* ctx.bumps.escrow: the canonical bump of the escrow address
Bumps == {254, 255}
EmptyString == ""

JobKeys == Wallets \X Titles
AppKeys == JobKeys \X Wallets

\* addresses of accounts: wallets, escrows, user accounts, job posts,
\* applications
WalletAddr(w) == <<"wallet", w, "">>
EscrowOf(j) == <<"escrow", j[1], j[2]>>
UserAddr(w) == <<"user", w, "">>
JobAddr(j) == <<"job_post", j[1], j[2]>>
AppAddr(a) == <<"application", a[1][1], a[1][2], a[2]>>

\* the accounts a caller can name as `freelancer`: any address
Recipients ==
    {WalletAddr(w) : w \in Wallets} \cup {EscrowOf(j) : j \in JobKeys}
        \cup {UserAddr(w) : w \in Wallets} \cup {JobAddr(j) : j \in JobKeys}
        \cup {AppAddr(a) : a \in AppKeys}

\* users, jobs, apps: the program's accounts, by address
\* lamports: the balance of every wallet and of every account created
\* clock: Clock::get().unix_timestamp
\* accepted: per job, how many approve_submission calls on it have passed
\*           every check of the handler and reached the transfer
\* acceptedWith: the <<job, application>> pairs of those calls
\* paid: the jobs on which an approve_submission call has succeeded
\* caller: the signer of the most recent successful instruction
VARIABLES users, jobs, apps, lamports, clock, accepted, acceptedWith, paid, caller

vars == <<users, jobs, apps, lamports, clock, accepted, acceptedWith, paid, caller>>

\* ---- records ----
UserAccount(wallet, name, role) ==
    [wallet |-> wallet, name |-> name, role |-> role]

\* (a handler that leaves the amount field of the job post unwritten)
JobPostAmountUnset(client, title, description, amount, escrow_bump, start_date, end_date) ==
    [client |-> client, title |-> title, description |-> description,
     amount |-> 0, is_filled |-> FALSE, escrow_bump |-> escrow_bump,
     start_date |-> start_date, end_date |-> end_date]

JobPost(client, title, description, amount, escrow_bump, start_date, end_date) ==
    [client |-> client, title |-> title, description |-> description,
     amount |-> amount, is_filled |-> FALSE, escrow_bump |-> escrow_bump,
     start_date |-> start_date, end_date |-> end_date]

Application(applicant, job_post, resume_link, expected_end_date) ==
    [applicant |-> applicant, job_post |-> job_post,
     resume_link |-> resume_link, approved |-> FALSE, completed |-> FALSE,
     submission_link |-> EmptyString, narration |-> EmptyString,
     client_review |-> EmptyString, expected_end_date |-> expected_end_date]

Extend(f, k, v) == [x \in (DOMAIN f) \cup {k} |-> IF x = k THEN v ELSE f[x]]

\* ---- system_program::transfer on a ledger l ----
TransferOk(l, from, n) == l[from] >= n

\* an account created by the program's `init` holds at least its 8-byte
\* discriminator; a wallet holds no data
CarriesData(x) == x[1] # "wallet"

\* (a transfer that accepts a source account carrying data)
transfer_err_data_unchecked(l, from, n) ==
    IF ~TransferOk(l, from, n) THEN "InsufficientFunds" ELSE "Ok"

transfer_err(l, from, n) ==
    IF CarriesData(from) THEN "TransferFromMustNotCarryData"
    ELSE IF ~TransferOk(l, from, n) THEN "InsufficientFunds"
    ELSE "Ok"

\* the balance of an address; an address that holds nothing has balance 0
Balance(l, x) == IF x \in DOMAIN l THEN l[x] ELSE 0

\* (a transfer that credits the recipient without debiting the source)
TransferNoDebit(l, from, to, n) == Extend(l, to, Balance(l, to) + n)

Transfer(l, from, to, n) ==
    LET debited == [l EXCEPT ![from] = @ - n]
    IN Extend(debited, to, Balance(debited, to) + n)

\* ---- accounts created by `init, payer = signer, space = ...` ----
\* 8 (discriminator) + wallet 32 + name (4 + 50) + role 1
UserSpace == 8 + 32 + (4 + 50) + 1
\* 8 + client 32 + title (4 + 100) + amount 8 + description (4 + 500)
\*   + is_filled 1 + escrow_bump 1 + start_date 8 + end_date 8
JobPostSpace == 8 + 32 + (4 + 100) + 8 + (4 + 500) + 1 + 1 + 8 + 8
EscrowSpace == 8
\* 8 + applicant 32 + job_post 32 + resume_link (4 + 200) + approved 1
\*   + completed 1 + submission_link (4 + 200) + narration (4 + 300)
\*   + client_review (4 + 300) + expected_end_date 8
ApplicationSpace ==
    8 + 32 + 32 + (4 + 200) + 1 + 1 + (4 + 200) + (4 + 300) + (4 + 300) + 8

\* the rent-exempt minimum of an account of `space` bytes
Rent(space) == (128 + space) * 6960

create_account_err(l, payer, space) ==
    IF ~TransferOk(l, payer, Rent(space)) THEN "InsufficientFundsForRent"
    ELSE "Ok"

CreateAccount(l, payer, new, space) == Transfer(l, payer, new, Rent(space))

\* ---- initial state: nothing registered, every wallet funded ----
Init ==
    /\ users = [w \in {} |-> 0]
    /\ jobs = [j \in {} |-> 0]
    /\ apps = [a \in {} |-> 0]
    /\ lamports = [x \in {WalletAddr(w) : w \in Wallets} |-> InitBalance]
    /\ clock = 0
    /\ accepted = [j \in JobKeys |-> 0]
    /\ acceptedWith = {}
    /\ paid = {}
    /\ caller = "none"

\* ---- register_user ----
\* (without the existence check of the identity record)
register_user_err_reinit(signer) == "Ok"

register_user_err(signer) ==
    IF signer \in DOMAIN users THEN "AlreadyExists"
    ELSE create_account_err(lamports, WalletAddr(signer), UserSpace)

register_user(signer, name, role) ==
    /\ register_user_err(signer) = "Ok"
    /\ users' = Extend(users, signer, UserAccount(signer, name, role))
    /\ lamports' = CreateAccount(lamports, WalletAddr(signer), UserAddr(signer),
                                 UserSpace)
    /\ caller' = signer
    /\ UNCHANGED <<jobs, apps, clock, accepted, acceptedWith, paid>>

\* ---- initialize_job_post (post_job) ----
\* the ledger once `init` has created the job post, paid by the signer
JobPostCreated(signer, j) ==
    CreateAccount(lamports, WalletAddr(signer), JobAddr(j), JobPostSpace)

\* the ledger once `init` has created the job post and then its escrow
EscrowCreated(signer, j) ==
    CreateAccount(JobPostCreated(signer, j), WalletAddr(signer), EscrowOf(j),
                  EscrowSpace)

\* (without the start_date >= current time check)
initialize_job_post_err_past_start(signer, u, title, amount, start_date, end_date) ==
    LET j == <<signer, title>>
    IN IF j \in DOMAIN jobs THEN "AlreadyExists"
       ELSE IF create_account_err(lamports, WalletAddr(signer), JobPostSpace) # "Ok"
       THEN create_account_err(lamports, WalletAddr(signer), JobPostSpace)
       ELSE IF create_account_err(JobPostCreated(signer, j), WalletAddr(signer),
                                  EscrowSpace) # "Ok"
       THEN create_account_err(JobPostCreated(signer, j), WalletAddr(signer),
                               EscrowSpace)
       ELSE IF ~(users[u].role = "Client") THEN "Unauthorized"
       ELSE IF ~(start_date <= end_date) THEN "InvalidDates"
       ELSE IF ~TransferOk(EscrowCreated(signer, j), WalletAddr(signer), amount)
       THEN "InsufficientFunds"
       ELSE "Ok"

initialize_job_post_err(signer, u, title, amount, start_date, end_date) ==
    LET j == <<signer, title>>
    IN IF j \in DOMAIN jobs THEN "AlreadyExists"
       ELSE IF create_account_err(lamports, WalletAddr(signer), JobPostSpace) # "Ok"
       THEN create_account_err(lamports, WalletAddr(signer), JobPostSpace)
       ELSE IF create_account_err(JobPostCreated(signer, j), WalletAddr(signer),
                                  EscrowSpace) # "Ok"
       THEN create_account_err(JobPostCreated(signer, j), WalletAddr(signer),
                               EscrowSpace)
       ELSE IF ~(users[u].role = "Client") THEN "Unauthorized"
       ELSE IF ~(start_date <= end_date) THEN "InvalidDates"
       ELSE IF ~(start_date >= clock) THEN "InvalidDates"
       ELSE IF ~TransferOk(EscrowCreated(signer, j), WalletAddr(signer), amount)
       THEN "InsufficientFunds"
       ELSE "Ok"

\* (a handler that records the job post without the transfer into the escrow)
initialize_job_post_unfunded(signer, u, title, description, amount, escrow_bump, start_date, end_date) ==
    LET j == <<signer, title>>
    IN /\ u \in DOMAIN users
       /\ initialize_job_post_err(signer, u, title, amount, start_date, end_date) = "Ok"
       /\ jobs' = Extend(jobs, j,
             JobPost(users[u].wallet, title, description, amount, escrow_bump,
                     start_date, end_date))
       /\ lamports' = EscrowCreated(signer, j)
       /\ caller' = signer
       /\ UNCHANGED <<users, apps, clock, accepted, acceptedWith, paid>>

initialize_job_post(signer, u, title, description, amount, escrow_bump, start_date, end_date) ==
    LET j == <<signer, title>>
    IN /\ u \in DOMAIN users
       /\ initialize_job_post_err(signer, u, title, amount, start_date, end_date) = "Ok"
       /\ jobs' = Extend(jobs, j,
             JobPost(users[u].wallet, title, description, amount, escrow_bump,
                     start_date, end_date))
       /\ lamports' = Transfer(EscrowCreated(signer, j),
                               WalletAddr(signer), EscrowOf(j), amount)
       /\ caller' = signer
       /\ UNCHANGED <<users, apps, clock, accepted, acceptedWith, paid>>

\* ---- apply_to_job ----
\* (without the role check)
apply_to_job_err_any_role(signer, u, j, expected_end_date) ==
    IF <<j, signer>> \in DOMAIN apps THEN "AlreadyExists"
    ELSE IF create_account_err(lamports, WalletAddr(signer), ApplicationSpace) # "Ok"
    THEN create_account_err(lamports, WalletAddr(signer), ApplicationSpace)
    ELSE IF ~(expected_end_date >= 0) THEN "InvalidDates"
    ELSE "Ok"

apply_to_job_err(signer, u, j, expected_end_date) ==
    IF <<j, signer>> \in DOMAIN apps THEN "AlreadyExists"
    ELSE IF create_account_err(lamports, WalletAddr(signer), ApplicationSpace) # "Ok"
    THEN create_account_err(lamports, WalletAddr(signer), ApplicationSpace)
    ELSE IF ~(users[u].role = "Freelancer") THEN "Unauthorized"
    ELSE IF ~(expected_end_date >= 0) THEN "InvalidDates"
    ELSE "Ok"

apply_to_job(signer, u, j, resume_link, expected_end_date) ==
    /\ u \in DOMAIN users
    /\ j \in DOMAIN jobs
    /\ apply_to_job_err(signer, u, j, expected_end_date) = "Ok"
    /\ apps' = Extend(apps, <<j, signer>>,
           Application(users[u].wallet, j, resume_link, expected_end_date))
    /\ lamports' = CreateAccount(lamports, WalletAddr(signer),
                                 AppAddr(<<j, signer>>), ApplicationSpace)
    /\ caller' = signer
    /\ UNCHANGED <<users, jobs, clock, accepted, acceptedWith, paid>>

\* ---- approve_application ----
\* (without the is_filled check)
approve_application_err_unfilled_unchecked(signer, u, a, j) ==
    IF ~(jobs[j].client = users[u].wallet) THEN "Unauthorized"
    ELSE IF ~(users[u].role = "Client") THEN "Unauthorized"
    ELSE "Ok"

approve_application_err(signer, u, a, j) ==
    IF ~(jobs[j].client = users[u].wallet) THEN "Unauthorized"
    ELSE IF ~(users[u].role = "Client") THEN "Unauthorized"
    ELSE IF jobs[j].is_filled THEN "JobAlreadyFilled"
    ELSE "Ok"

approve_application(signer, u, a, j) ==
    /\ u \in DOMAIN users
    /\ a \in DOMAIN apps
    /\ j \in DOMAIN jobs
    /\ approve_application_err(signer, u, a, j) = "Ok"
    /\ apps' = [apps EXCEPT ![a].approved = TRUE]
    /\ jobs' = [jobs EXCEPT ![j].is_filled = TRUE]
    /\ caller' = signer
    /\ UNCHANGED <<users, lamports, clock, accepted, acceptedWith, paid>>

\* ---- submit_work ----
submit_work_err(signer, u, a, j) ==
    IF ~(users[u].role = "Freelancer") THEN "Unauthorized"
    ELSE IF ~(apps[a].applicant = users[u].wallet) THEN "Unauthorized"
    ELSE IF ~apps[a].approved THEN "ApplicationNotApproved"
    ELSE "Ok"

submit_work(signer, u, a, j, submission_link, narration) ==
    /\ u \in DOMAIN users
    /\ a \in DOMAIN apps
    /\ j \in DOMAIN jobs
    /\ submit_work_err(signer, u, a, j) = "Ok"
    /\ apps' = [apps EXCEPT ![a].submission_link = submission_link,
                            ![a].narration = narration,
                            ![a].completed = TRUE]
    /\ caller' = signer
    /\ UNCHANGED <<users, jobs, lamports, clock, accepted, acceptedWith, paid>>

\* ---- approve_submission ----
approve_submission_err(signer, u, a, j, freelancer) ==
    IF ~(jobs[j].client = users[u].wallet) THEN "Unauthorized"
    ELSE IF ~(users[u].role = "Client") THEN "Unauthorized"
    ELSE IF ~apps[a].completed THEN "WorkNotCompleted"
    ELSE transfer_err(lamports, EscrowOf(j), jobs[j].amount)

approve_submission(signer, u, a, j, freelancer, client_review) ==
    /\ u \in DOMAIN users
    /\ a \in DOMAIN apps
    /\ j \in DOMAIN jobs
    /\ accepted[j] < MaxAccepted
    /\ approve_submission_err(signer, u, a, j, freelancer)
          \notin {"Unauthorized", "WorkNotCompleted"}
    /\ LET ok == approve_submission_err(signer, u, a, j, freelancer) = "Ok"
       IN /\ apps' = IF ok THEN [apps EXCEPT ![a].client_review = client_review]
                     ELSE apps
          /\ lamports' = IF ok THEN Transfer(lamports, EscrowOf(j), freelancer,
                                             jobs[j].amount)
                         ELSE lamports
          /\ caller' = IF ok THEN signer ELSE caller
    /\ accepted' = [accepted EXCEPT ![j] = @ + 1]
    /\ acceptedWith' = acceptedWith \cup {<<j, a>>}
    /\ paid' = IF approve_submission_err(signer, u, a, j, freelancer) = "Ok"
               THEN paid \cup {j} ELSE paid
    /\ UNCHANGED <<users, jobs, clock>>

\* ---- the cluster clock advances between transactions ----
Tick ==
    /\ clock < MaxClock
    /\ clock' = clock + 1
    /\ UNCHANGED <<users, jobs, apps, lamports, accepted, acceptedWith, paid, caller>>

Next ==
    \/ \E s \in Wallets, n \in Names, r \in Roles : register_user(s, n, r)
    \/ \E s \in Wallets, u \in Wallets, t \in Titles, d \in Descriptions,
          amt \in Amounts, b \in Bumps, sd \in StartDates, ed \in EndDates :
          initialize_job_post(s, u, t, d, amt, b, sd, ed)
    \/ \E s \in Wallets, u \in Wallets, j \in JobKeys, r \in Resumes,
          e \in ExpectedDates :
          apply_to_job(s, u, j, r, e)
    \/ \E s \in Wallets, u \in Wallets, a \in AppKeys, j \in JobKeys :
          approve_application(s, u, a, j)
    \/ \E s \in Wallets, u \in Wallets, a \in AppKeys, j \in JobKeys,
          l \in Links, n \in Narrations :
          submit_work(s, u, a, j, l, n)
    \/ \E s \in Wallets, u \in Wallets, a \in AppKeys, j \in JobKeys,
          f \in Recipients, c \in Reviews :
          approve_submission(s, u, a, j, f, c)
    \/ Tick

Spec == Init /\ [][Next]_vars

\* ---- the accounts after a call, whatever its outcome ----
\* (a runtime that keeps the writes of a failed instruction)
CommitWithoutRollback(err, pre, post) == post

\* The runtime applies the writes of an instruction only when it returns Ok.
Commit(err, pre, post) == IF err = "Ok" THEN post ELSE pre

Accounts == [users |-> users, jobs |-> jobs, apps |-> apps, lamports |-> lamports]

\* an account created by `init` that the handler has not written yet
ZeroJobPost ==
    [client |-> "", title |-> "", description |-> "", amount |-> 0,
     is_filled |-> FALSE, escrow_bump |-> 0, start_date |-> 0, end_date |-> 0]

ZeroApplication ==
    [applicant |-> "", job_post |-> <<"", "">>, resume_link |-> "",
     approved |-> FALSE, completed |-> FALSE, submission_link |-> "",
     narration |-> "", client_review |-> "", expected_end_date |-> 0]

\* <op>_writes: the accounts as the instruction left them when it returned
register_user_writes(signer, name, role) ==
    IF register_user_err(signer) = "Ok"
    THEN [Accounts EXCEPT
             !.users = Extend(users, signer, UserAccount(signer, name, role)),
             !.lamports = CreateAccount(lamports, WalletAddr(signer),
                                        UserAddr(signer), UserSpace)]
    ELSE Accounts

register_user_call(signer, name, role) ==
    Commit(register_user_err(signer), Accounts, register_user_writes(signer, name, role))

\* job_post and escrow are created by `init` before the handler runs; the
\* handler writes the fields of the job post before the transfer
initialize_job_post_writes(signer, u, title, description, amount, escrow_bump, start_date, end_date) ==
    LET j == <<signer, title>>
        err == initialize_job_post_err(signer, u, title, amount, start_date, end_date)
        job == JobPost(users[u].wallet, title, description, amount, escrow_bump,
                       start_date, end_date)
        created == EscrowCreated(signer, j)
    IN IF err = "AlreadyExists" THEN Accounts
       ELSE IF err = "InsufficientFundsForRent"
       THEN IF create_account_err(lamports, WalletAddr(signer), JobPostSpace) # "Ok"
            THEN Accounts
            ELSE [Accounts EXCEPT !.jobs = Extend(jobs, j, ZeroJobPost),
                                  !.lamports = JobPostCreated(signer, j)]
       ELSE IF err \in {"Unauthorized", "InvalidDates"}
       THEN [Accounts EXCEPT !.jobs = Extend(jobs, j, ZeroJobPost),
                             !.lamports = created]
       ELSE IF err = "InsufficientFunds"
       THEN [Accounts EXCEPT !.jobs = Extend(jobs, j, job), !.lamports = created]
       ELSE [Accounts EXCEPT !.jobs = Extend(jobs, j, job),
                             !.lamports = Transfer(created, WalletAddr(signer),
                                                   EscrowOf(j), amount)]

initialize_job_post_call(signer, u, title, description, amount, escrow_bump, start_date, end_date) ==
    Commit(initialize_job_post_err(signer, u, title, amount, start_date, end_date),
           Accounts,
           initialize_job_post_writes(signer, u, title, description, amount,
                                      escrow_bump, start_date, end_date))

\* the application is created by `init` before the handler's checks
apply_to_job_writes(signer, u, j, resume_link, expected_end_date) ==
    LET err == apply_to_job_err(signer, u, j, expected_end_date)
        created == CreateAccount(lamports, WalletAddr(signer),
                                 AppAddr(<<j, signer>>), ApplicationSpace)
    IN IF err \in {"AlreadyExists", "InsufficientFundsForRent"} THEN Accounts
       ELSE IF err = "Ok"
       THEN [Accounts EXCEPT !.apps = Extend(apps, <<j, signer>>,
                Application(users[u].wallet, j, resume_link, expected_end_date)),
                             !.lamports = created]
       ELSE [Accounts EXCEPT !.apps = Extend(apps, <<j, signer>>, ZeroApplication),
                             !.lamports = created]

apply_to_job_call(signer, u, j, resume_link, expected_end_date) ==
    Commit(apply_to_job_err(signer, u, j, expected_end_date), Accounts,
           apply_to_job_writes(signer, u, j, resume_link, expected_end_date))

\* (a handler that sets the flags before its checks)
approve_application_writes_unguarded(signer, u, a, j) ==
    [Accounts EXCEPT !.apps = [apps EXCEPT ![a].approved = TRUE],
                     !.jobs = [jobs EXCEPT ![j].is_filled = TRUE]]

approve_application_writes(signer, u, a, j) ==
    IF approve_application_err(signer, u, a, j) = "Ok"
    THEN [Accounts EXCEPT !.apps = [apps EXCEPT ![a].approved = TRUE],
                          !.jobs = [jobs EXCEPT ![j].is_filled = TRUE]]
    ELSE Accounts

approve_application_call(signer, u, a, j) ==
    Commit(approve_application_err(signer, u, a, j), Accounts,
           approve_application_writes(signer, u, a, j))

submit_work_writes(signer, u, a, j, submission_link, narration) ==
    IF submit_work_err(signer, u, a, j) = "Ok"
    THEN [Accounts EXCEPT !.apps =
             [apps EXCEPT ![a].submission_link = submission_link,
                          ![a].narration = narration,
                          ![a].completed = TRUE]]
    ELSE Accounts

submit_work_call(signer, u, a, j, submission_link, narration) ==
    Commit(submit_work_err(signer, u, a, j), Accounts,
           submit_work_writes(signer, u, a, j, submission_link, narration))

\* the handler writes client_review before the transfer
approve_submission_writes(signer, u, a, j, freelancer, client_review) ==
    LET err == approve_submission_err(signer, u, a, j, freelancer)
        reviewed == [apps EXCEPT ![a].client_review = client_review]
    IN IF err \in {"Unauthorized", "WorkNotCompleted"} THEN Accounts
       ELSE IF err # "Ok" THEN [Accounts EXCEPT !.apps = reviewed]
       ELSE [Accounts EXCEPT !.apps = reviewed,
                             !.lamports = Transfer(lamports, EscrowOf(j), freelancer,
                                                   jobs[j].amount)]

approve_submission_call(signer, u, a, j, freelancer, client_review) ==
    Commit(approve_submission_err(signer, u, a, j, freelancer), Accounts,
           approve_submission_writes(signer, u, a, j, freelancer, client_review))

\* ---- helpers for the properties ----
ApprovedFor(j) == {a \in DOMAIN apps : apps[a].job_post = j /\ apps[a].approved}

EscrowBalance(j) == lamports[EscrowOf(j)]

IsClient(w) == w \in DOMAIN users /\ users[w].role = "Client"

IsFreelancer(w) == w \in DOMAIN users /\ users[w].role = "Freelancer"

\* C1: in every reachable state, every job post has at most one application
\* record that references it and has approved = true.
AtMostOneApprovedPerJob ==
    \A j \in DOMAIN jobs : Cardinality(ApprovedFor(j)) <= 1

EscrowReleasedOnlyByClient ==
    \A s \in Wallets, u \in DOMAIN users, a \in DOMAIN apps, j \in DOMAIN jobs,
       f \in Recipients :
        ~(s = jobs[j].client /\ IsClient(s))
            => approve_submission_err(s, u, a, j, f) = "Unauthorized"

\* C5: each job goes Open -> Filled -> WorkSubmitted -> Paid with no step
\* skipped or reversed: work is submitted on an application only when the job
\* it references is filled; a job's escrow is released only when the job is
\* filled and an application referencing it is approved and completed;
\* completed implies approved; and the filled, approved and completed flags
\* never return from true to false.
FilledBeforeWorkSubmitted ==
    \A a \in DOMAIN apps : apps[a].completed => jobs[apps[a].job_post].is_filled

PaidImpliesFilledAndCompleted ==
    \A j \in paid' \ paid :
        /\ jobs[j].is_filled
        /\ \E a \in DOMAIN apps :
              apps[a].job_post = j /\ apps[a].approved /\ apps[a].completed

CompletedImpliesApproved ==
    \A a \in DOMAIN apps : apps[a].completed => apps[a].approved

FlagsNeverReset ==
    /\ \A j \in DOMAIN jobs : jobs[j].is_filled => jobs'[j].is_filled
    /\ \A a \in DOMAIN apps :
          /\ apps[a].approved => apps'[a].approved
          /\ apps[a].completed => apps'[a].completed

LifecycleInOrder ==
    /\ [](FilledBeforeWorkSubmitted /\ CompletedImpliesApproved)
    /\ [][PaidImpliesFilledAndCompleted /\ FlagsNeverReset]_vars

\* C8: a job post (and its escrow) is created only by a signer that is
\* registered with role Client.
JobPostedOnlyByClient ==
    [][\A j \in (DOMAIN jobs') \ (DOMAIN jobs) :
          /\ caller' = j[1]
          /\ IsClient(caller')]_vars

\* C9: an application record is created only by a signer that is registered
\* with role Freelancer.
ApplicationOnlyByFreelancer ==
    [][\A a \in (DOMAIN apps') \ (DOMAIN apps) :
          /\ caller' = a[2]
          /\ IsFreelancer(caller')]_vars

\* C10: a job's filled flag and an application's approved flag are set to
\* true only in a step whose signer is that job's client and has role Client.
ApprovedOnlyByJobClient ==
    [][/\ \A j \in DOMAIN jobs :
             (~jobs[j].is_filled /\ jobs'[j].is_filled)
                 => (caller' = jobs[j].client /\ IsClient(caller'))
       /\ \A a \in DOMAIN apps :
             (~apps[a].approved /\ apps'[a].approved)
                 => \E j \in DOMAIN jobs :
                       /\ ~jobs[j].is_filled /\ jobs'[j].is_filled
                       /\ caller' = jobs[j].client
                       /\ IsClient(caller')]_vars

\* C11 as stated: every operation is guard-then-mutate; a call that returns
\* an error has changed no account when it returns.
GuardThenMutate ==
    /\ \A s \in Wallets, n \in Names, r \in Roles :
          register_user_err(s) # "Ok" => register_user_writes(s, n, r) = Accounts
    /\ \A s \in Wallets, u \in DOMAIN users, t \in Titles, d \in Descriptions,
          amt \in Amounts, b \in Bumps, sd \in StartDates, ed \in EndDates :
          initialize_job_post_err(s, u, t, amt, sd, ed) # "Ok"
              => initialize_job_post_writes(s, u, t, d, amt, b, sd, ed) = Accounts
    /\ \A s \in Wallets, u \in DOMAIN users, j \in DOMAIN jobs, r \in Resumes,
          e \in ExpectedDates :
          apply_to_job_err(s, u, j, e) # "Ok"
              => apply_to_job_writes(s, u, j, r, e) = Accounts
    /\ \A s \in Wallets, u \in DOMAIN users, a \in DOMAIN apps, j \in DOMAIN jobs :
          /\ approve_application_err(s, u, a, j) # "Ok"
                => approve_application_writes(s, u, a, j) = Accounts
          /\ \A l \in Links, n \in Narrations :
                submit_work_err(s, u, a, j) # "Ok"
                    => submit_work_writes(s, u, a, j, l, n) = Accounts
          /\ \A f \in Recipients, c \in Reviews :
                approve_submission_err(s, u, a, j, f) # "Ok"
                    => approve_submission_writes(s, u, a, j, f, c) = Accounts

\* C11: register_user, approve_application and submit_work are
\* guard-then-mutate: a call of theirs that returns an error has changed no
\* account when it returns.  Every operation is all-or-nothing: after a call
\* that returns an error, the failed transaction discarded, every identity,
\* job and application record and every balance is as it was before the call.
GuardedOperations ==
    /\ \A s \in Wallets, n \in Names, r \in Roles :
          register_user_err(s) # "Ok" => register_user_writes(s, n, r) = Accounts
    /\ \A s \in Wallets, u \in DOMAIN users, a \in DOMAIN apps, j \in DOMAIN jobs :
          /\ approve_application_err(s, u, a, j) # "Ok"
                => approve_application_writes(s, u, a, j) = Accounts
          /\ \A l \in Links, n \in Narrations :
                submit_work_err(s, u, a, j) # "Ok"
                    => submit_work_writes(s, u, a, j, l, n) = Accounts

FailedCallDiscarded ==
    /\ \A s \in Wallets, n \in Names, r \in Roles :
          register_user_err(s) # "Ok" => register_user_call(s, n, r) = Accounts
    /\ \A s \in Wallets, u \in DOMAIN users, t \in Titles, d \in Descriptions,
          amt \in Amounts, b \in Bumps, sd \in StartDates, ed \in EndDates :
          initialize_job_post_err(s, u, t, amt, sd, ed) # "Ok"
              => initialize_job_post_call(s, u, t, d, amt, b, sd, ed) = Accounts
    /\ \A s \in Wallets, u \in DOMAIN users, j \in DOMAIN jobs, r \in Resumes,
          e \in ExpectedDates :
          apply_to_job_err(s, u, j, e) # "Ok"
              => apply_to_job_call(s, u, j, r, e) = Accounts
    /\ \A s \in Wallets, u \in DOMAIN users, a \in DOMAIN apps, j \in DOMAIN jobs :
          /\ approve_application_err(s, u, a, j) # "Ok"
                => approve_application_call(s, u, a, j) = Accounts
          /\ \A l \in Links, n \in Narrations :
                submit_work_err(s, u, a, j) # "Ok"
                    => submit_work_call(s, u, a, j, l, n) = Accounts
          /\ \A f \in Recipients, c \in Reviews :
                approve_submission_err(s, u, a, j, f) # "Ok"
                    => approve_submission_call(s, u, a, j, f, c) = Accounts

FailureChangesNothing == GuardedOperations /\ FailedCallDiscarded

\* a filled job on which a further approve_application is refused with
\* JobAlreadyFilled, a submit_work on an unapproved application refused with
\* ApplicationNotApproved, and a registered wallet whose second register_user
\* is refused
FailureChangesNothingWitness ==
    /\ \E j \in DOMAIN jobs, a \in DOMAIN apps, u \in DOMAIN users :
          /\ jobs[j].is_filled
          /\ approve_application_err(u, u, a, j) = "JobAlreadyFilled"
    /\ \E j \in DOMAIN jobs, a \in DOMAIN apps, u \in DOMAIN users :
          submit_work_err(u, u, a, j) = "ApplicationNotApproved"
    /\ \E w \in Wallets : register_user_err(w) = "AlreadyExists"

\* C12 as stated: every approve_application on a filled job fails
\* JobAlreadyFilled.
FilledJobFailsJobAlreadyFilled ==
    \A s \in Wallets, u \in DOMAIN users, a \in DOMAIN apps, j \in DOMAIN jobs :
        jobs[j].is_filled => approve_application_err(s, u, a, j) = "JobAlreadyFilled"

\* C12: on a job whose filled flag is true every approve_application fails,
\* whichever application it targets, and has changed neither the job nor the
\* application when it returns: it fails Unauthorized when the identity
\* record supplied is not that of the job's client with role Client, which is
\* checked first, and JobAlreadyFilled otherwise; on an unfilled job a call
\* with the record of the job's client succeeds; and a filled job post is
\* never changed again, so exactly the first valid approval succeeds.
AuthorizedApproval(u, j) ==
    jobs[j].client = users[u].wallet /\ users[u].role = "Client"

FilledJobRejectsApproval ==
    \A s \in Wallets, u \in DOMAIN users, a \in DOMAIN apps, j \in DOMAIN jobs :
        /\ jobs[j].is_filled
              => /\ approve_application_err(s, u, a, j)
                       = IF AuthorizedApproval(u, j)
                         THEN "JobAlreadyFilled" ELSE "Unauthorized"
                 /\ approve_application_writes(s, u, a, j) = Accounts
        /\ (~jobs[j].is_filled /\ AuthorizedApproval(u, j))
              => approve_application_err(s, u, a, j) = "Ok"

FilledJobNeverChanges ==
    \A j \in DOMAIN jobs : jobs[j].is_filled => jobs'[j] = jobs[j]

FirstApprovalWins ==
    /\ []FilledJobRejectsApproval
    /\ [][FilledJobNeverChanges]_vars

\* a filled job with its approved application and a second, unapproved
\* application that references it
FirstApprovalWinsWitness ==
    \E j \in DOMAIN jobs, a \in DOMAIN apps, b \in DOMAIN apps :
        /\ jobs[j].is_filled
        /\ apps[a].job_post = j /\ apps[a].approved
        /\ apps[b].job_post = j /\ ~apps[b].approved
        /\ IsClient(jobs[j].client)

\* C13: an application's completed flag is set to true (and its submission
\* link and narration written) only in a step whose signer is that
\* application's applicant and has role Freelancer, on an approved application.
SubmittedOnlyByApplicant ==
    [][\A a \in DOMAIN apps :
          (\/ ~apps[a].completed /\ apps'[a].completed
           \/ apps'[a].submission_link # apps[a].submission_link
           \/ apps'[a].narration # apps[a].narration)
              => /\ caller' = apps[a].applicant
                 /\ IsFreelancer(caller')
                 /\ apps[a].approved]_vars

\* C14 as stated: a post_job call with start_date > end_date or start_date
\* earlier than the current time fails InvalidDates.
BadDates(start_date, end_date) ==
    start_date > end_date \/ start_date < clock

BadDatesFailInvalidDates ==
    \A s \in Wallets, u \in DOMAIN users, t \in Titles, amt \in Amounts,
       sd \in StartDates, ed \in EndDates :
        BadDates(sd, ed) => initialize_job_post_err(s, u, t, amt, sd, ed) = "InvalidDates"

\* C14: a post_job call with start_date > end_date or start_date earlier than
\* the current time fails: AlreadyExists when the job post exists, else
\* InsufficientFundsForRent when the signer cannot pay the rent of the job
\* post and the escrow, else Unauthorized when the identity record is not a
\* Client, else InvalidDates.  When it fails InvalidDates the handler has
\* written no field of the job post and moved no amount into the escrow.
\* Every job post is created with start_date <= end_date and start_date >=
\* the time of its creation, and its dates never change.
BadDatesRejected ==
    \A s \in Wallets, u \in DOMAIN users, t \in Titles, d \in Descriptions,
       amt \in Amounts, b \in Bumps, sd \in StartDates, ed \in EndDates :
        BadDates(sd, ed)
           => LET err == initialize_job_post_err(s, u, t, amt, sd, ed)
                  w == initialize_job_post_writes(s, u, t, d, amt, b, sd, ed)
              IN /\ err = IF <<s, t>> \in DOMAIN jobs THEN "AlreadyExists"
                          ELSE IF lamports[WalletAddr(s)]
                                     < Rent(JobPostSpace) + Rent(EscrowSpace)
                          THEN "InsufficientFundsForRent"
                          ELSE IF users[u].role # "Client" THEN "Unauthorized"
                          ELSE "InvalidDates"
                 /\ err = "InvalidDates"
                       => /\ w.jobs[<<s, t>>] = ZeroJobPost
                          /\ w.lamports[EscrowOf(<<s, t>>)] = Rent(EscrowSpace)

JobDatesOrdered ==
    \A j \in DOMAIN jobs : jobs[j].start_date <= jobs[j].end_date

JobDatesSetAtCreation ==
    \A j \in DOMAIN jobs' :
        IF j \in DOMAIN jobs
        THEN /\ jobs'[j].start_date = jobs[j].start_date
             /\ jobs'[j].end_date = jobs[j].end_date
        ELSE /\ jobs'[j].start_date <= jobs'[j].end_date
             /\ jobs'[j].start_date >= clock

PostedJobsHaveValidDates ==
    /\ [](BadDatesRejected /\ JobDatesOrdered)
    /\ [][JobDatesSetAtCreation]_vars

\* a job post exists, time has moved past the only start date, and a Client
\* posting a further job with that start date is refused with InvalidDates
PostedJobsHaveValidDatesWitness ==
    /\ DOMAIN jobs # {}
    /\ \E s \in Wallets, t \in Titles, sd \in StartDates, ed \in EndDates :
          /\ s \in DOMAIN users
          /\ sd < clock /\ sd <= ed
          /\ initialize_job_post_err(s, s, t, 0, sd, ed) = "InvalidDates"

\* C15: in every reachable state no two application records have the same
\* job reference and the same recorded applicant.
OneApplicationPerJobAndApplicant ==
    \A a \in DOMAIN apps, b \in DOMAIN apps :
        (apps[a].job_post = apps[b].job_post
            /\ apps[a].applicant = apps[b].applicant) => a = b

\* C16: there is one identity record per owner identity; register_user by an
\* identity that already has a record fails AlreadyExists and leaves the
\* records as they are; and an existing identity record keeps its owner and
\* its role in every step.
RegisteredOnce ==
    \A w \in DOMAIN users :
        /\ users[w].wallet = w
        /\ register_user_err(w) = "AlreadyExists"
        /\ \A n \in Names, r \in Roles : register_user_writes(w, n, r) = Accounts

IdentityNeverChanges ==
    \A w \in DOMAIN users :
        /\ w \in DOMAIN users'
        /\ users'[w].wallet = users[w].wallet
        /\ users'[w].role = users[w].role

OneIdentityPerOwner ==
    /\ []RegisteredOnce
    /\ [][IdentityNeverChanges]_vars

\* both identities are registered, with different roles, and have since
\* posted a job and applied to it
OneIdentityPerOwnerWitness ==
    /\ DOMAIN users = Wallets
    /\ \E v \in Wallets, w \in Wallets : users[v].role # users[w].role
    /\ DOMAIN jobs # {}
    /\ DOMAIN apps # {}

\* C17: in every reachable state a job post is filled if and only if exactly
\* one application whose job reference is that job is approved.
FilledIffOneApproved ==
    \A j \in DOMAIN jobs :
        jobs[j].is_filled <=> Cardinality(ApprovedFor(j)) = 1

RECURSIVE SumOver(_, _)
SumOver(l, S) ==
    IF S = {} THEN 0
    ELSE LET x == CHOOSE y \in S : TRUE IN l[x] + SumOver(l, S \ {x})

Total(l) == SumOver(l, DOMAIN l)

InitialFunds == Cardinality(Wallets) * InitBalance

FundsConservedInState ==
    /\ Total(lamports) = InitialFunds
    /\ \A x \in DOMAIN lamports : lamports[x] >= 0
    /\ \A s \in Wallets, n \in Names, r \in Roles :
          Total(register_user_writes(s, n, r).lamports) = InitialFunds
    /\ \A s \in Wallets, u \in DOMAIN users, t \in Titles, d \in Descriptions,
          amt \in Amounts, b \in Bumps, sd \in StartDates, ed \in EndDates :
          Total(initialize_job_post_writes(s, u, t, d, amt, b, sd, ed).lamports)
              = InitialFunds
    /\ \A s \in Wallets, u \in DOMAIN users, j \in DOMAIN jobs, r \in Resumes,
          e \in ExpectedDates :
          Total(apply_to_job_writes(s, u, j, r, e).lamports) = InitialFunds
    /\ \A s \in Wallets, u \in DOMAIN users, a \in DOMAIN apps, j \in DOMAIN jobs :
          \A f \in Recipients, c \in Reviews :
          LET after == approve_submission_writes(s, u, a, j, f, c).lamports
          IN /\ Total(after) = InitialFunds
             /\ approve_submission_err(s, u, a, j, f) # "Ok" => after = lamports

\* what a step adds to the balance of an address
Credited(x) == Balance(lamports', x) - Balance(lamports, x)

\* a step credits exactly the addresses of `credits`, a function from
\* addresses to lamports, and debits their sum from the wallet `from`
MovesExactly(from, credits) ==
    /\ from \notin DOMAIN credits
    /\ \A x \in DOMAIN credits : Credited(x) = credits[x]
    /\ Credited(from) = 0 - SumOver(credits, DOMAIN credits)
    /\ \A x \in DOMAIN lamports' :
          x \notin (DOMAIN credits) \cup {from} => Credited(x) = 0

FundsMoveExactly ==
    IF \E j \in DOMAIN jobs' : j \notin DOMAIN jobs
    THEN \E j \in (DOMAIN jobs') \ (DOMAIN jobs) :
            /\ caller' = j[1]
            /\ MovesExactly(WalletAddr(caller'),
                  [x \in {EscrowOf(j), JobAddr(j)} |->
                      IF x = EscrowOf(j)
                      THEN jobs'[j].amount + Rent(EscrowSpace)
                      ELSE Rent(JobPostSpace)])
    ELSE IF \E w \in DOMAIN users' : w \notin DOMAIN users
    THEN \E w \in (DOMAIN users') \ (DOMAIN users) :
            /\ caller' = w
            /\ MovesExactly(WalletAddr(w),
                  [x \in {UserAddr(w)} |-> Rent(UserSpace)])
    ELSE IF \E a \in DOMAIN apps' : a \notin DOMAIN apps
    THEN \E a \in (DOMAIN apps') \ (DOMAIN apps) :
            /\ caller' = a[2]
            /\ MovesExactly(WalletAddr(a[2]),
                  [x \in {AppAddr(a)} |-> Rent(ApplicationSpace)])
    ELSE paid' = paid => lamports' = lamports

RecordedRolesHold ==
    /\ \A j \in DOMAIN jobs : IsClient(jobs[j].client)
    /\ \A a \in DOMAIN apps : IsFreelancer(apps[a].applicant)

RecordedPartiesFixed ==
    /\ \A j \in DOMAIN jobs :
          /\ j \in DOMAIN jobs'
          /\ jobs'[j].client = jobs[j].client
          /\ jobs'[j].amount = jobs[j].amount
    /\ \A a \in DOMAIN apps :
          /\ a \in DOMAIN apps'
          /\ apps'[a].applicant = apps[a].applicant
          /\ apps'[a].job_post = apps[a].job_post

PartiesRegisteredAndFixed ==
    /\ []RecordedRolesHold
    /\ [][RecordedPartiesFixed]_vars

\* a job post and an application on it exist, and the records have been
\* written since their creation: the application is approved and completed,
\* the job is filled, and its payout has been asked for
PartiesRegisteredAndFixedWitness ==
    \E j \in DOMAIN jobs, a \in DOMAIN apps :
        /\ apps[a].job_post = j
        /\ jobs[j].is_filled
        /\ apps[a].approved /\ apps[a].completed
        /\ <<j, a>> \in acceptedWith
        /\ jobs[j].client # apps[a].applicant

\* ---- the parties of a job following the intended lifecycle ----
\* the job's client, signing with their own identity record, approves an
\* application made to that job
ClientApproves(j) ==
    /\ j \in DOMAIN jobs
    /\ \E a \in DOMAIN apps :
          /\ apps[a].job_post = j
          /\ approve_application(jobs[j].client, jobs[j].client, a, j)

\* the applicant of an approved application, signing with their own identity
\* record, submits the work for the job the application was made to
FreelancerSubmits(a) ==
    /\ a \in DOMAIN apps
    /\ ~apps[a].completed
    /\ \E l \in Links, n \in Narrations :
          submit_work(apps[a].applicant, apps[a].applicant, a, apps[a].job_post, l, n)

\* the job's client, signing with their own identity record, accepts the
\* completed work of the job's approved application and pays its applicant
ClientPays(j) ==
    /\ j \in DOMAIN jobs
    /\ \E a \in ApprovedFor(j), c \in Reviews :
          /\ <<j, a>> \notin acceptedWith
          /\ approve_submission(jobs[j].client, jobs[j].client, a, j,
                                WalletAddr(apps[a].applicant), c)

FairSpec ==
    /\ Spec
    /\ \A j \in JobKeys : WF_vars(ClientApproves(j)) /\ WF_vars(ClientPays(j))
    /\ \A a \in AppKeys : WF_vars(FreelancerSubmits(a))

\* C20: under weak fairness of the client's approve_application and
\* approve_submission and of the approved freelancer's submit_work, every
\* posted job with a positive amount that has received an application
\* eventually has its escrow emptied of the amount: the escrow holds no more
\* than the rent of its account.
HasApplication(j) ==
    j \in DOMAIN jobs /\ \E a \in DOMAIN apps : apps[a].job_post = j

EscrowReleased(j) == j \in DOMAIN jobs /\ EscrowBalance(j) <= Rent(EscrowSpace)

AppliedJobEventuallyPaid ==
    \A j \in JobKeys :
        (HasApplication(j) /\ jobs[j].amount > 0) ~> EscrowReleased(j)
====
